---- MODULE Spec2Model ----
(***************************************************************************)
(* Model of sg-bucket's view post-processing (views.go):                   *)
(* ProcessViewResult applies startkey/endkey/key, limit, include_docs and  *)
(* reduce/group parameters to a sorted ViewResult; ReduceViewResult folds  *)
(* the rows, grouped or ungrouped, through _count or _sum.                 *)
(***************************************************************************)
EXTENDS Integers, Sequences, FiniteSets, TLC

VARIABLES
    result,          \* the ViewResult handed to ProcessViewResult
    params,          \* the query parameter map
    bucket,          \* the IDs of the documents bucket.GetRaw can return
    spareCap,        \* whether array keys carry zeroed capacity beyond their length
    reduceFunction,  \* the view's reduce function name
    ret,             \* what the last call of ProcessViewResult produced
    first,           \* what the first call produced, once its result was fed back
    pc,              \* "ready" | "returned" | "panicked"
    calls            \* calls of ProcessViewResult made so far

vars == <<result, params, bucket, spareCap, reduceFunction, ret, first, pc, calls>>

(***************************************************************************)
(* Bounds of the model.                                                    *)
(***************************************************************************)
MaxRows == 3
MaxNum == 3

(***************************************************************************)
(* Decoded JSON values (interface{}).  A nil interface and a decoded JSON  *)
(* null are the same Go value.  Array elements are values again.           *)
(***************************************************************************)
Nil == [type |-> "null", num |-> 0, elems |-> <<>>]
Num(n) == [type |-> "number", num |-> n, elems |-> <<>>]
Arr(s) == [type |-> "array", num |-> 0, elems |-> s]

\* Position of a value's type in the collation order
\* null < false < true < number < string < array < object.
TypeRank(v) ==
    CASE v.type = "null" -> 0
      [] v.type = "false" -> 1
      [] v.type = "true" -> 2
      [] v.type = "number" -> 3
      [] v.type = "string" -> 4
      [] v.type = "array" -> 5
      [] v.type = "object" -> 6

Sign(n) == IF n < 0 THEN -1 ELSE IF n > 0 THEN 1 ELSE 0

RECURSIVE Collate(_, _), CollateElems(_, _, _)
\* JSONCollator.Collate: different types by type precedence, numbers
\* numerically, arrays element-wise with a proper prefix sorting first.
Collate(a, b) ==
    IF TypeRank(a) # TypeRank(b) THEN Sign(TypeRank(a) - TypeRank(b))
    ELSE IF a.type = "number" THEN Sign(a.num - b.num)
    ELSE IF a.type = "array" THEN CollateElems(a.elems, b.elems, 1)
    ELSE 0
CollateElems(s, t, i) ==
    IF i > Len(s) \/ i > Len(t) THEN Sign(Len(s) - Len(t))
    ELSE LET c == Collate(s[i], t[i])
         IN IF c # 0 THEN c ELSE CollateElems(s, t, i + 1)

\* collationToFloat64: the number a value stands for, 0 for a non-number.
collationToFloat64(v) == IF v.type = "number" THEN v.num ELSE 0

(***************************************************************************)
(* ViewRow and ViewResult.                                                 *)
(***************************************************************************)
NoDoc == [set |-> FALSE, body |-> ""]
DocOf(raw) == [set |-> TRUE, body |-> raw]
ViewRow(key, value, id) == [Key |-> key, Value |-> value, ID |-> id, Doc |-> NoDoc]
ViewResult(rows, total) == [Rows |-> rows, TotalRows |-> total]

\* rows[from:] and rows[:to] of Go, with 0-based bounds
SliceFrom(rows, from) == SubSeq(rows, from + 1, Len(rows))
SliceTo(rows, to) == SubSeq(rows, 1, to)

RECURSIVE SearchFrom(_, _, _)
\* sort.Search(n, f): binary search for the smallest index in [0, n) at
\* which f holds, n when there is none; f is given as f[1..n] (f(h) is f[h+1]).
SearchFrom(f, i, j) ==
    IF i < j
    THEN LET h == (i + j) \div 2
         IN IF ~f[h + 1] THEN SearchFrom(f, h + 1, j) ELSE SearchFrom(f, i, h)
    ELSE i
Search(f) == SearchFrom(f, 0, Len(f))

(***************************************************************************)
(* Range selection (ProcessViewResult, the three trimming stages).         *)
(***************************************************************************)
\* StartTrim with the comparison made strict: rows equal to startkey are lost.
StartTrimStrict(rows, startkey) ==
    IF startkey # Nil
    THEN LET i == Search([h \in 1..Len(rows) |-> Collate(rows[h].Key, startkey) > 0])
         IN SubSeq(rows, i + 1, Len(rows))
    ELSE rows

\* startkey given: drop the rows before the first one with Key >= startkey.
StartTrim(rows, startkey) ==
    IF startkey # Nil
    THEN LET i == Search([h \in 1..Len(rows) |-> Collate(rows[h].Key, startkey) >= 0])
         IN SliceFrom(rows, i)
    ELSE rows

\* limit > 0: keep at most limit rows.
LimitTrim(rows, limit) ==
    IF limit > 0 /\ Len(rows) > limit THEN SliceTo(rows, limit) ELSE rows

\* endkey given: cut at the first row whose Key collates above the threshold
\* (0 when the end is inclusive, -1 when it is not).
EndTrim(rows, endkey, inclusiveEnd) ==
    IF endkey # Nil
    THEN LET limit == IF ~inclusiveEnd THEN -1 ELSE 0
             i == Search([h \in 1..Len(rows) |-> Collate(rows[h].Key, endkey) > limit])
         IN SliceTo(rows, i)
    ELSE rows

(***************************************************************************)
(* Document inlining.                                                      *)
(***************************************************************************)
\* bucket.GetRaw(id): the raw document, or an error when there is none.
\* A document's raw bytes are stood for by its ID.
GetRaw(bkt, id) ==
    IF id \in bkt THEN [err |-> "nil", raw |-> id]
    ELSE [err |-> "DocumentFetchFailed", raw |-> ""]

\* The include_docs loop: fetch each row's document in order; the first
\* failing fetch returns with result.Rows still the rows without documents.
IncludeDocs(rows, bkt) ==
    LET failing == {h \in 1..Len(rows) : GetRaw(bkt, rows[h].ID).err # "nil"}
    IN IF failing # {}
       THEN LET h == CHOOSE x \in failing : \A y \in failing : x <= y
            IN [err |-> GetRaw(bkt, rows[h].ID).err, Rows |-> rows, fetches |-> h]
       ELSE [err |-> "nil",
             Rows |-> [h \in 1..Len(rows) |->
                          [rows[h] EXCEPT !.Doc = DocOf(GetRaw(bkt, rows[h].ID).raw)]],
             fetches |-> Len(rows)]

(***************************************************************************)
(* Reduce functions.                                                       *)
(***************************************************************************)
\* ReduceFunc with an unknown name falling back to _count.
ReduceFuncFallsBack(name) ==
    IF name = "_sum" THEN [err |-> "nil", fun |-> "_sum"]
    ELSE [err |-> "nil", fun |-> "_count"]

\* ReduceFunc: only _count and _sum compile.
ReduceFunc(name) ==
    IF name \in {"_count", "_sum"} THEN [err |-> "nil", fun |-> name]
    ELSE [err |-> "UnsupportedReduceFunction", fun |-> ""]

RECURSIVE SumValues(_, _)
\* the _sum loop: total += collationToFloat64(row.Value), from row i on
SumValues(rows, i) ==
    IF i > Len(rows) THEN 0
    ELSE collationToFloat64(rows[i].Value) + SumValues(rows, i + 1)

\* reduceFun with _sum counting the rows instead of adding their values.
reduceFunCountsOnly(fun, rows) == ViewRow(Nil, Num(Len(rows)), "")

\* The function ReduceFunc returns, applied to rows: a fresh ViewRow that
\* has only its Value set.
reduceFun(fun, rows) ==
    IF fun = "_count" THEN ViewRow(Nil, Num(Len(rows)), "")
    ELSE ViewRow(Nil, Num(SumValues(rows, 1)), "")

(***************************************************************************)
(* Grouped and ungrouped reduction.                                        *)
(***************************************************************************)
\* keyPrefix fails at runtime when key is no array (the type assertion), or
\* when groupLevel exceeds the capacity of the key's slice.
KeyPrefixPanics(groupLevel, key) ==
    \/ key.type # "array"
    \/ groupLevel > Len(key.elems) /\ ~spareCap

\* key[0:groupLevel]; slicing beyond the length but within the capacity
\* exposes the capacity's zero values.
keyPrefix(groupLevel, key) ==
    Arr([h \in 1..groupLevel |-> IF h <= Len(key.elems) THEN key.elems[h] ELSE Nil])

\* groupLevel of ReduceViewResult: -1 for group=true, else group_level, else 0.
GroupLevel(p) ==
    IF p.group = "true" THEN -1
    ELSE IF p.group_level # Nil THEN p.group_level.num
    ELSE 0

\* InKey with the group level ignored: every row is keyed by its whole Key.
InKeyIgnoringLevel(groupLevel, row) == row.Key

\* inKey of the grouping loop
InKey(groupLevel, row) ==
    IF groupLevel # -1 THEN keyPrefix(groupLevel, row.Key) ELSE row.Key

\* CloseGroup without outRow.Key = key.
CloseGroupUnkeyed(fun, key, inRows) == reduceFun(fun, inRows)

\* closing a group: reduce the collected rows and key the output row
CloseGroup(fun, key, inRows) == [reduceFun(fun, inRows) EXCEPT !.Key = key]

RECURSIVE GroupLoop(_, _, _, _, _, _, _)
\* The loop over result.Rows from row i on, with the loop's key, inRows and
\* outRows, followed by the closing of the last group.
GroupLoop(fun, groupLevel, rows, i, key, inRows, outRows) ==
    IF i > Len(rows) THEN Append(outRows, CloseGroup(fun, key, inRows))
    ELSE LET row == rows[i]
             inKey == InKey(groupLevel, row)
         IN IF Collate(inKey, key) = 0
            THEN GroupLoop(fun, groupLevel, rows, i + 1, key, Append(inRows, row), outRows)
            ELSE GroupLoop(fun, groupLevel, rows, i + 1, inKey, <<row>>,
                           Append(outRows, CloseGroup(fun, key, inRows)))

\* ReduceViewResult(reduceFunction, params, &result) on result.Rows = rows:
\* the error returned, the Rows left in result, whether the call failed at
\* runtime, and the number of calls of the reduce function.
ReduceViewResult(name, p, rows) ==
    LET compiled == ReduceFunc(name)
        groupLevel == GroupLevel(p)
    IN IF compiled.err # "nil"
       THEN [err |-> compiled.err, Rows |-> rows, panicked |-> FALSE, folds |-> 0]
       ELSE IF groupLevel # 0
       THEN IF \/ Len(rows) = 0
               \/ groupLevel # -1 /\ \E h \in 1..Len(rows) : KeyPrefixPanics(groupLevel, rows[h].Key)
            THEN [err |-> "nil", Rows |-> rows, panicked |-> TRUE, folds |-> 0]
            ELSE LET out == GroupLoop(compiled.fun, groupLevel, rows, 1,
                                      InKey(groupLevel, rows[1]), <<>>, <<>>)
                 IN [err |-> "nil", Rows |-> out, panicked |-> FALSE, folds |-> Len(out)]
       ELSE [err |-> "nil", Rows |-> <<reduceFun(compiled.fun, rows)>>,
             panicked |-> FALSE, folds |-> 1]

(***************************************************************************)
(* ProcessViewResult.                                                      *)
(***************************************************************************)
\* What a call produced: the returned ViewResult and error (or that the
\* call failed at runtime), the number of bucket.GetRaw calls, whether
\* ReduceViewResult was called, the rows it was handed, and the number of
\* calls of the reduce function.
Outcome(rows, total, err, panicked, fetches, reduceCalled, reduceIn, folds) ==
    [Rows |-> rows, TotalRows |-> total, err |-> err, panicked |-> panicked,
     fetches |-> fetches, reduceCalled |-> reduceCalled, reduceIn |-> reduceIn,
     folds |-> folds]

NoOutcome == Outcome(<<>>, 0, "nil", FALSE, 0, FALSE, <<>>, 0)

\* startkey, with start_key as its older synonym
StartKey(p) == IF p.startkey = Nil THEN p.start_key ELSE p.startkey
\* endkey, with end_key as its synonym
EndKey(p) == IF p.endkey = Nil THEN p.end_key ELSE p.endkey
\* the effective start of the range: key overrides startkey
EffStart(p) == IF p.key # Nil THEN p.key ELSE StartKey(p)
\* the effective end of the range: key overrides endkey
EffEnd(p) == IF p.key # Nil THEN p.key ELSE EndKey(p)
\* InclusiveEnd with inclusive_end read even when key is given.
InclusiveEndDespiteKey(p) ==
    IF p.inclusive_end \in {"true", "false"} THEN p.inclusive_end = "true" ELSE TRUE

\* inclusiveEnd: true unless key is absent and inclusive_end is a bool
InclusiveEnd(p) ==
    IF p.key # Nil THEN TRUE
    ELSE IF p.inclusive_end \in {"true", "false"} THEN p.inclusive_end = "true"
    ELSE TRUE
\* reduce: true unless the reduce parameter is a bool
ReduceParam(p) == IF p.reduce \in {"true", "false"} THEN p.reduce = "true" ELSE TRUE

\* RangeSelect with the limit applied before the start trim.
RangeSelectLimitFirst(rows, p) ==
    EndTrim(StartTrim(LimitTrim(rows, p.limit), EffStart(p)), EffEnd(p), InclusiveEnd(p))

\* The three trimming stages in the order of the code.
RangeSelect(rows, p) ==
    EndTrim(LimitTrim(StartTrim(rows, EffStart(p)), p.limit), EffEnd(p), InclusiveEnd(p))

\* Reverse with the parameter ignored.
ReverseIgnored(p) == FALSE

\* reverse: the reverse parameter when it is a bool, else false
Reverse(p) == p.reverse = "true"

\* TotalRows left as it came in.
TotalRowsStale(res, rows) == res.TotalRows

\* result.TotalRows = len(result.Rows) on the successful return
TotalRowsOf(res, rows) == Len(rows)

ProcessViewResult(res, p, bkt, name) ==
    IF Reverse(p)
    THEN Outcome(res.Rows, res.TotalRows, "UnsupportedOperation", FALSE, 0, FALSE, <<>>, 0)
    ELSE
    LET trimmed == RangeSelect(res.Rows, p)
        docs == IF p.include_docs = "true" THEN IncludeDocs(trimmed, bkt)
                ELSE [err |-> "nil", Rows |-> trimmed, fetches |-> 0]
    IN IF docs.err # "nil"
       THEN Outcome(docs.Rows, res.TotalRows, docs.err, FALSE, docs.fetches, FALSE, <<>>, 0)
       ELSE IF ReduceParam(p) /\ name # ""
       THEN LET red == ReduceViewResult(name, p, docs.Rows)
            IN IF red.panicked
               THEN Outcome(docs.Rows, res.TotalRows, "nil", TRUE, docs.fetches,
                            TRUE, docs.Rows, red.folds)
               ELSE IF red.err # "nil"
               THEN Outcome(red.Rows, res.TotalRows, red.err, FALSE, docs.fetches,
                            TRUE, docs.Rows, red.folds)
               ELSE Outcome(red.Rows, TotalRowsOf(res, red.Rows), "nil", FALSE,
                            docs.fetches, TRUE, docs.Rows, red.folds)
       ELSE Outcome(docs.Rows, TotalRowsOf(res, docs.Rows), "nil", FALSE,
                    docs.fetches, FALSE, <<>>, 0)

(***************************************************************************)
(* Inputs.  The rows of a view are sorted by Key under the collator before *)
(* ProcessViewResult sees them; row h carries the h-th document ID and the *)
(* value h.                                                                *)
(***************************************************************************)
DocIDs == <<"d1", "d2", "d3", "d4", "d5", "d6">>
IdOf(h) == DocIDs[h]
AllDocs == {IdOf(h) : h \in 1..(MaxRows + 1)}

Sorted(rows) ==
    \A h \in 1..(Len(rows) - 1) : Collate(rows[h].Key, rows[h + 1].Key) <= 0

RowsOver(keys) ==
    LET keySeqs == UNION {[1..n -> keys] : n \in 0..MaxRows}
        rowsOf(ks) == [h \in 1..Len(ks) |-> ViewRow(ks[h], Num(h), IdOf(h))]
    IN {rowsOf(ks) : ks \in {k \in keySeqs : Sorted(rowsOf(k))}}

Flags == {"absent", "true", "false"}
NumKeys == {Num(n) : n \in 1..MaxNum}
ScalarKeys == {Nil} \cup NumKeys
ArrayKeys == {Arr(<<Num(1)>>), Arr(<<Num(1), Num(1)>>), Arr(<<Num(1), Num(2)>>),
              Arr(<<Num(2), Num(1)>>)}
Limits == {0, 1, 2}

\* The parameter map with every parameter absent (a nil map reads the same).
\* A bool parameter is "absent", "true" or "false"; limit is the uint64 given,
\* 0 when absent; group_level is Nil when absent, else the uint64 given.
NoParams ==
    [startkey |-> Nil, start_key |-> Nil, endkey |-> Nil, end_key |-> Nil,
     key |-> Nil, inclusive_end |-> "absent", limit |-> 0,
     include_docs |-> "absent", reverse |-> "absent", reduce |-> "absent",
     group |-> "absent", group_level |-> Nil]

InitCall ==
    /\ ret = NoOutcome
    /\ first = NoOutcome
    /\ pc = "ready"
    /\ calls = 0

\* the two ways a call has reduce disabled: reduce=false, or no reduce function
NoReduceModes == {<<"false", "_count">>, <<"absent", "">>}

\* Range queries over scalar keys, reduce disabled.
InitRange ==
    /\ result \in {ViewResult(rows, Len(rows)) : rows \in RowsOver(ScalarKeys)}
    /\ \E mode \in NoReduceModes :
          /\ params \in [startkey : ScalarKeys, start_key : {Nil, Num(2)},
                         endkey : ScalarKeys, end_key : {Nil, Num(2)},
                         key : {Nil, Num(2)}, inclusive_end : Flags, limit : Limits,
                         include_docs : {"absent"}, reverse : {"absent"},
                         reduce : {mode[1]}, group : {"absent"}, group_level : {Nil}]
          /\ reduceFunction = mode[2]
    /\ bucket = AllDocs
    /\ spareCap = FALSE
    /\ InitCall

\* Reduce queries over array keys (and one scalar key).
InitReduce ==
    /\ result \in {ViewResult(rows, Len(rows)) : rows \in RowsOver(ArrayKeys \cup {Num(1)})}
    /\ params \in [startkey : {Nil, Arr(<<Num(1), Num(2)>>), Arr(<<Num(3)>>)},
                   start_key : {Nil}, endkey : {Nil}, end_key : {Nil},
                   key : {Nil}, inclusive_end : {"absent"}, limit : {0},
                   include_docs : {"absent"}, reverse : {"absent"},
                   reduce : {"absent", "true"}, group : Flags,
                   group_level : {Nil, Num(0), Num(1), Num(2)}]
    /\ bucket = AllDocs
    /\ spareCap \in BOOLEAN
    /\ reduceFunction \in {"_count", "_sum"}
    /\ InitCall

PipelineKeys == {Num(1), Arr(<<Num(1), Num(1)>>), Arr(<<Num(1), Num(2)>>)}
\* group / group_level as given together: neither, group=true, group_level=1
GroupModes == {<<"absent", Nil>>, <<"true", Nil>>, <<"absent", Num(1)>>}
Buckets(p) ==
    IF p.include_docs = "true" THEN {AllDocs, AllDocs \ {IdOf(2)}} ELSE {AllDocs}

\* The whole pipeline: range, limit, documents, grouped and ungrouped reduce,
\* known and unknown reduce functions, on inputs whose TotalRows may differ
\* from the number of rows.
InitPipeline ==
    /\ \E rows \in RowsOver(PipelineKeys), extra \in {0, 1} :
          result = ViewResult(rows, Len(rows) + extra)
    /\ \E sk \in {Nil, Arr(<<Num(1), Num(2)>>)}, ek \in {Nil, Arr(<<Num(1), Num(1)>>)},
          k \in {Nil, Arr(<<Num(1), Num(1)>>)}, ie \in {"absent", "false"},
          lim \in {0, 1}, docs \in {"absent", "true"}, red \in {"absent", "false"},
          grp \in GroupModes :
          params = [NoParams EXCEPT !.startkey = sk, !.endkey = ek, !.key = k,
                       !.inclusive_end = ie, !.limit = lim, !.include_docs = docs,
                       !.reduce = red, !.group = grp[1], !.group_level = grp[2]]
    /\ bucket \in Buckets(params)
    /\ spareCap = FALSE
    /\ reduceFunction \in {"", "_count", "_sum", "_stats"}
    /\ InitCall

\* Calls with and without reverse=true, whatever else is asked for.
InitReverse ==
    /\ \E rows \in RowsOver(PipelineKeys), extra \in {0, 1} :
          result = ViewResult(rows, Len(rows) + extra)
    /\ \E sk \in {Nil, Arr(<<Num(1), Num(2)>>)}, ek \in {Nil, Arr(<<Num(1), Num(1)>>)},
          k \in {Nil, Arr(<<Num(1), Num(1)>>)}, lim \in {0, 1},
          docs \in {"absent", "true"}, red \in {"absent", "false"},
          grp \in {"absent", "true"}, rev \in Flags :
          params = [NoParams EXCEPT !.startkey = sk, !.endkey = ek, !.key = k,
                       !.limit = lim, !.include_docs = docs, !.reduce = red,
                       !.group = grp, !.reverse = rev]
    /\ bucket = AllDocs
    /\ spareCap = FALSE
    /\ reduceFunction \in {"", "_count"}
    /\ InitCall

(***************************************************************************)
(* Actions.                                                                *)
(***************************************************************************)
\* A call of ProcessViewResult(result, params, bucket, reduceFunction).
Process ==
    /\ pc = "ready"
    /\ LET out == ProcessViewResult(result, params, bucket, reduceFunction)
       IN /\ ret' = out
          /\ pc' = IF out.panicked THEN "panicked" ELSE "returned"
    /\ calls' = calls + 1
    /\ UNCHANGED <<result, params, bucket, spareCap, reduceFunction, first>>

\* The caller feeds a successful first result back, with the same
\* parameters but reduce=false.
Resubmit ==
    /\ pc = "returned"
    /\ calls = 1
    /\ ret.err = "nil"
    /\ result' = ViewResult(ret.Rows, ret.TotalRows)
    /\ params' = [params EXCEPT !.reduce = "false"]
    /\ first' = ret
    /\ ret' = NoOutcome
    /\ pc' = "ready"
    /\ UNCHANGED <<bucket, spareCap, reduceFunction, calls>>

Next == Process \/ Resubmit

SpecRange == InitRange /\ [][Next]_vars
SpecReduce == InitReduce /\ [][Next]_vars
SpecPipeline == InitPipeline /\ [][Next]_vars
SpecReverse == InitReverse /\ [][Next]_vars

(***************************************************************************)
(* Vocabulary of the properties, stated without the operators above.       *)
(***************************************************************************)
Returned == pc = "returned"
ReturnedOk == pc = "returned" /\ ret.err = "nil"
ReduceDisabled == params.reduce = "false" \/ reduceFunction = ""
GivenStart == IF params.startkey # Nil THEN params.startkey ELSE params.start_key
GivenEnd == IF params.endkey # Nil THEN params.endkey ELSE params.end_key
RangeStart == IF params.key # Nil THEN params.key ELSE GivenStart
RangeEnd == IF params.key # Nil THEN params.key ELSE GivenEnd
EndExclusive == params.key = Nil /\ params.inclusive_end = "false"
AtOrAfterStart(r) == RangeStart = Nil \/ Collate(r.Key, RangeStart) >= 0
AtOrBeforeEnd(r) ==
    \/ RangeEnd = Nil
    \/ IF EndExclusive THEN Collate(r.Key, RangeEnd) < 0 ELSE Collate(r.Key, RangeEnd) <= 0
InsideRange(r) == AtOrAfterStart(r) /\ AtOrBeforeEnd(r)
DropDocs(rows) == [h \in 1..Len(rows) |-> [rows[h] EXCEPT !.Doc = NoDoc]]
IsPrefix(s, t) == Len(s) <= Len(t) /\ s = SubSeq(t, 1, Len(s))
Contiguous(s, t) ==
    \E a \in 1..(Len(t) + 1) : \E b \in 0..Len(t) : s = SubSeq(t, a, b)
KeysOf(rows) == [h \in 1..Len(rows) |-> rows[h].Key]

(***************************************************************************)
(* C1. Range selection: with limit = 0, no key parameter and reduce        *)
(* disabled, a successful call on sorted rows returns exactly the input    *)
(* rows, in input order and contiguous in the input, whose Key is          *)
(* >= startkey (start_key when startkey is absent) and <= endkey (end_key  *)
(* when endkey is absent), or < endkey when inclusive_end is false.        *)
(***************************************************************************)
C1_RangeSelection ==
    (ReturnedOk /\ params.limit = 0 /\ params.key = Nil /\ ReduceDisabled)
    => /\ DropDocs(ret.Rows) = DropDocs(SelectSeq(result.Rows, InsideRange))
       /\ Contiguous(DropDocs(ret.Rows), DropDocs(result.Rows))

\* A first call with start_key (the synonym) and an exclusive endkey that
\* cuts rows on both sides.
C1_Witness ==
    /\ ReturnedOk /\ calls = 1 /\ ReduceDisabled
    /\ params.limit = 0 /\ params.key = Nil
    /\ params.startkey = Nil /\ params.start_key = Num(2)
    /\ params.endkey = Num(3) /\ params.inclusive_end = "false"
    /\ KeysOf(result.Rows) = <<Num(1), Num(2), Num(3)>>
    /\ KeysOf(ret.Rows) = <<Num(2)>>

(***************************************************************************)
(* C2. Stage order of limit: with limit > 0 and reduce disabled, the       *)
(* returned rows are the end trim of the first `limit` rows of the         *)
(* start-trimmed rows; so they are at most `limit`, and a prefix of the    *)
(* start-trimmed rows.                                                     *)
(***************************************************************************)
C2_LimitOrder ==
    (ReturnedOk /\ params.limit > 0 /\ ReduceDisabled)
    => LET afterStart == SelectSeq(result.Rows, AtOrAfterStart)
           limited == SubSeq(afterStart, 1,
                             IF Len(afterStart) < params.limit THEN Len(afterStart)
                             ELSE params.limit)
       IN /\ DropDocs(ret.Rows) = DropDocs(SelectSeq(limited, AtOrBeforeEnd))
          /\ Len(ret.Rows) <= params.limit
          /\ IsPrefix(DropDocs(ret.Rows), DropDocs(afterStart))

\* limit = 2 after a start trim that drops a row, and the end trim cuts the
\* limited prefix down to one row.
C2_Witness ==
    /\ ReturnedOk /\ calls = 1 /\ ReduceDisabled
    /\ params.limit = 2 /\ params.key = Nil
    /\ params.startkey = Num(1) /\ params.endkey = Num(1)
    /\ KeysOf(result.Rows) = <<Nil, Num(1), Num(2)>>
    /\ KeysOf(ret.Rows) = <<Num(1)>>

(***************************************************************************)
(* C3. Equality range: a non-null key parameter overrides startkey and     *)
(* endkey (and their synonyms) and the end is inclusive whatever           *)
(* inclusive_end says, so with limit = 0 and reduce disabled the returned  *)
(* rows are exactly the input rows whose Key collates equal to key.        *)
(***************************************************************************)
C3_KeyEquality ==
    (ReturnedOk /\ params.key # Nil /\ params.limit = 0 /\ ReduceDisabled)
    => LET EqualsKey(r) == Collate(r.Key, params.key) = 0
       IN DropDocs(ret.Rows) = DropDocs(SelectSeq(result.Rows, EqualsKey))

\* key = 2 against a contradicting startkey/endkey and inclusive_end=false,
\* on rows with two Keys equal to 2.
C3_Witness ==
    /\ ReturnedOk /\ calls = 1 /\ ReduceDisabled
    /\ params.key = Num(2) /\ params.limit = 0
    /\ params.inclusive_end = "false"
    /\ params.startkey = Num(3) /\ params.endkey = Num(1)
    /\ KeysOf(result.Rows) = <<Num(1), Num(2), Num(2)>>
    /\ KeysOf(ret.Rows) = <<Num(2), Num(2)>>

(***************************************************************************)
(* Vocabulary of the reduce properties.                                    *)
(***************************************************************************)
ReduceEnabled == params.reduce # "false" /\ reduceFunction # ""
Supported == reduceFunction \in {"_count", "_sum"}
ByWholeKey == params.group = "true"
ByLevel == ~ByWholeKey /\ params.group_level # Nil /\ params.group_level.num >= 1
Grouping == ByWholeKey \/ ByLevel
\* the rows ReduceViewResult was handed all have array Keys of at least
\* group_level elements
KeysReachLevel ==
    \A h \in 1..Len(ret.reduceIn) :
        /\ ret.reduceIn[h].Key.type = "array"
        /\ Len(ret.reduceIn[h].Key.elems) >= params.group_level.num
GroupKey(r) ==
    IF ByWholeKey THEN r.Key ELSE Arr(SubSeq(r.Key.elems, 1, params.group_level.num))
\* the positions at which a maximal run of equal group keys starts
RunStarts ==
    {h \in 1..Len(ret.reduceIn) :
        h = 1 \/ Collate(GroupKey(ret.reduceIn[h]), GroupKey(ret.reduceIn[h - 1])) # 0}
RunStart(j) == CHOOSE s \in RunStarts : Cardinality({t \in RunStarts : t < s}) = j - 1
RunEnd(s) ==
    CHOOSE e \in s..Len(ret.reduceIn) :
        /\ \A h \in (s + 1)..e : h \notin RunStarts
        /\ e = Len(ret.reduceIn) \/ e + 1 \in RunStarts
RECURSIVE SumOfValues(_, _, _)
SumOfValues(rows, s, e) ==
    IF s > e THEN 0 ELSE rows[s].Value.num + SumOfValues(rows, s + 1, e)
\* what the reduce function yields on rows s..e of the rows handed to reduce
Folded(s, e) ==
    IF reduceFunction = "_count" THEN Num(e - s + 1)
    ELSE Num(SumOfValues(ret.reduceIn, s, e))

(***************************************************************************)
(* C4. Grouped reduction: with group=true or group_level=N >= 1 on         *)
(* non-empty sorted rows (array Keys of at least N elements), the output   *)
(* has exactly one row per maximal run of consecutive rows whose group key *)
(* collates equal, in input order; its Key is the run's group key and its  *)
(* Value the reduce function over exactly the run's rows.  The last run is *)
(* emitted too, so there is at least one output row.                       *)
(***************************************************************************)
C4_GroupedReduce ==
    (ReturnedOk /\ ret.reduceCalled /\ Supported /\ Grouping
        /\ Len(ret.reduceIn) > 0 /\ (ByLevel => KeysReachLevel))
    => /\ Len(ret.Rows) = Cardinality(RunStarts)
       /\ Len(ret.Rows) >= 1
       /\ ret.folds = Len(ret.Rows)
       /\ \A j \in 1..Len(ret.Rows) :
            /\ ret.Rows[j].Key = GroupKey(ret.reduceIn[RunStart(j)])
            /\ ret.Rows[j].Value = Folded(RunStart(j), RunEnd(RunStart(j)))

\* Keys [[1,1],[1,2],[2,1]] with _count and group_level=1: two rows,
\* [1] counted 2 and [2] counted 1.
C4_Witness ==
    /\ ReturnedOk /\ calls = 1
    /\ reduceFunction = "_count" /\ params.group_level = Num(1)
    /\ params.group = "absent"
    /\ KeysOf(ret.reduceIn) = <<Arr(<<Num(1), Num(1)>>), Arr(<<Num(1), Num(2)>>),
                                Arr(<<Num(2), Num(1)>>)>>
    /\ KeysOf(ret.Rows) = <<Arr(<<Num(1)>>), Arr(<<Num(2)>>)>>
    /\ ret.Rows[1].Value = Num(2) /\ ret.Rows[2].Value = Num(1)

(***************************************************************************)
(* C5. Ungrouped reduction: with reduce enabled, a supported function and  *)
(* neither group=true nor a non-zero group_level, the range-trimmed rows   *)
(* are folded exactly once into a single row with Key unset, whose Value   *)
(* is the number of rows for _count and the sum of their Values for _sum;  *)
(* an empty input gives one row with Value 0.                              *)
(***************************************************************************)
C5_UngroupedReduce ==
    (ReturnedOk /\ ReduceEnabled /\ Supported /\ ~Grouping)
    => /\ ret.reduceCalled
       /\ ret.folds = 1
       /\ (params.limit = 0 =>
              DropDocs(ret.reduceIn) = DropDocs(SelectSeq(result.Rows, InsideRange)))
       /\ ret.Rows = <<[Key |-> Nil, Value |-> Folded(1, Len(ret.reduceIn)),
                        ID |-> "", Doc |-> NoDoc]>>
       /\ (Len(ret.reduceIn) = 0 => ret.Rows[1].Value = Num(0))

\* _sum over three rows with values 1, 2, 3: a single row with Value 6.
C5_Witness ==
    /\ ReturnedOk /\ calls = 1
    /\ reduceFunction = "_sum" /\ ~Grouping /\ ReduceEnabled
    /\ Len(result.Rows) = 3 /\ Len(ret.reduceIn) = 3
    /\ Len(ret.Rows) = 1 /\ ret.Rows[1].Value = Num(6) /\ ret.Rows[1].Key = Nil

(***************************************************************************)
(* C10. Grouped reduction never reads a row that does not exist: when the  *)
(* rows reaching ReduceViewResult are empty and group=true or a non-zero   *)
(* group_level is given with a supported function, the call completes      *)
(* normally.                                                               *)
(***************************************************************************)
C10_EmptyGroupedCompletes ==
    (pc # "ready" /\ ret.reduceCalled /\ Supported /\ Grouping
        /\ Len(ret.reduceIn) = 0)
    => pc = "returned"

(***************************************************************************)
(* Vocabulary of the pipeline properties.                                  *)
(***************************************************************************)
\* the input rows left by the start trim, the limit and the end trim
Selected ==
    LET afterStart == SelectSeq(result.Rows, AtOrAfterStart)
        limited == IF params.limit > 0 /\ Len(afterStart) > params.limit
                   THEN SubSeq(afterStart, 1, params.limit)
                   ELSE afterStart
    IN SelectSeq(limited, AtOrBeforeEnd)
WantsDocs == params.include_docs = "true"
\* a document of a selected row is missing from the bucket
FetchFails == WantsDocs /\ \E h \in 1..Len(Selected) : Selected[h].ID \notin bucket
WithDocs(rows) == [h \in 1..Len(rows) |-> [rows[h] EXCEPT !.Doc = DocOf(rows[h].ID)]]
UnknownReduce == ReduceEnabled /\ ~Supported

(***************************************************************************)
(* C6 (as claimed). Unknown reduce function: with reduce enabled and a     *)
(* reduce function name other than "_count" and "_sum", the call returns   *)
(* an UnsupportedReduceFunction error and the returned Rows are the input  *)
(* Rows, whatever startkey, endkey, key and limit are (stated here for     *)
(* calls without include_docs).                                            *)
(***************************************************************************)
C6_UnknownReduceKeepsInput ==
    (Returned /\ UnknownReduce /\ ~WantsDocs)
    => /\ ret.err = "UnsupportedReduceFunction"
       /\ ret.Rows = result.Rows

(***************************************************************************)
(* C6 (amended). Unknown reduce function: with reduce enabled, an unknown  *)
(* reduce function name, no reverse and no failing document fetch, the     *)
(* call returns an UnsupportedReduceFunction error and reduces nothing:    *)
(* the returned Rows are the input rows left by range selection and limit  *)
(* (with their documents when include_docs is set), and TotalRows is the   *)
(* input's.  They are the input Rows when these stages remove nothing.     *)
(***************************************************************************)
C6_UnknownReduceKeepsSelected ==
    (Returned /\ UnknownReduce /\ params.reverse # "true" /\ ~FetchFails)
    => /\ ret.err = "UnsupportedReduceFunction"
       /\ ret.folds = 0
       /\ ret.Rows = IF WantsDocs THEN WithDocs(Selected) ELSE Selected
       /\ ret.TotalRows = result.TotalRows
       /\ (Len(Selected) = Len(result.Rows) /\ ~WantsDocs => ret.Rows = result.Rows)

\* "_stats" with a startkey that trims a row: the error comes back with the
\* trimmed rows.
C6_Witness ==
    /\ Returned /\ calls = 1 /\ UnknownReduce
    /\ reduceFunction = "_stats"
    /\ params.startkey = Arr(<<Num(1), Num(2)>>) /\ params.key = Nil
    /\ ret.err = "UnsupportedReduceFunction"
    /\ Len(result.Rows) = 3 /\ Len(ret.Rows) = 1

(***************************************************************************)
(* C7 (as claimed). Idempotence: feeding a successful result back with the *)
(* same parameters and reduce=false returns it unchanged (same Rows, same  *)
(* TotalRows), also after an ungrouped or grouped reduce and with          *)
(* startkey, endkey, key or limit given (stated here for calls without     *)
(* include_docs).                                                          *)
(***************************************************************************)
C7_Idempotent ==
    (pc # "ready" /\ calls = 2 /\ ~WantsDocs)
    => /\ ReturnedOk
       /\ ret.Rows = first.Rows
       /\ ret.TotalRows = first.TotalRows

(***************************************************************************)
(* C7 (amended). Idempotence: feeding a successful result back with the    *)
(* same parameters and reduce=false returns it unchanged when the first    *)
(* call reduced nothing, or reduced without include_docs either by         *)
(* group=true or ungrouped with no startkey, start_key or key given.       *)
(***************************************************************************)
C7_IdempotentWhenKeysStay ==
    (pc # "ready" /\ calls = 2
        /\ \/ ~first.reduceCalled
           \/ ~WantsDocs /\ ByWholeKey
           \/ ~WantsDocs /\ ~Grouping /\ RangeStart = Nil)
    => /\ ReturnedOk
       /\ ret.Rows = first.Rows
       /\ ret.TotalRows = first.TotalRows

\* A second call after a group=true reduce of rows that a startkey and a
\* limit had trimmed: the grouped row comes back as it was.
C7_Witness ==
    /\ ReturnedOk /\ calls = 2
    /\ first.reduceCalled /\ ByWholeKey /\ ~WantsDocs
    /\ params.startkey = Arr(<<Num(1), Num(2)>>) /\ params.key = Nil
    /\ Len(first.reduceIn) = 2
    /\ Len(first.Rows) = 1 /\ first.Rows[1].Value = Num(2)
    /\ ret.Rows = first.Rows

(***************************************************************************)
(* C8. reverse=true is rejected before any other stage: the call returns   *)
(* an UnsupportedOperation error with Rows and TotalRows as they came in,  *)
(* whatever the other parameters are; no document is fetched and           *)
(* ReduceViewResult is not called.                                         *)
(***************************************************************************)
C8_ReverseRejected ==
    (pc # "ready" /\ params.reverse = "true")
    => /\ pc = "returned"
       /\ ret.err = "UnsupportedOperation"
       /\ ret.Rows = result.Rows
       /\ ret.TotalRows = result.TotalRows
       /\ ret.fetches = 0
       /\ ~ret.reduceCalled /\ ret.folds = 0

\* reverse=true together with a key, a limit, include_docs and group=true
\* on three rows: all three come back.
C8_Witness ==
    /\ Returned /\ params.reverse = "true"
    /\ params.key = Arr(<<Num(1), Num(1)>>) /\ params.limit = 1
    /\ WantsDocs /\ ByWholeKey /\ ReduceEnabled
    /\ Len(result.Rows) = 3 /\ result.TotalRows = 4
    /\ ret.err = "UnsupportedOperation" /\ Len(ret.Rows) = 3

(***************************************************************************)
(* C9. TotalRows post-condition: whenever the call returns without error,  *)
(* the returned TotalRows is the length of the returned Rows, after any    *)
(* range trimming, limit, document inlining and grouped or ungrouped       *)
(* reduction, whatever TotalRows the input had.                            *)
(***************************************************************************)
C9_TotalRows == ReturnedOk => ret.TotalRows = Len(ret.Rows)

\* Three rows announced as four, trimmed by a startkey, with documents,
\* reduced by group=true to two rows.
C9_Witness ==
    /\ ReturnedOk /\ calls = 1
    /\ Len(result.Rows) = 3 /\ result.TotalRows = 4
    /\ params.endkey = Arr(<<Num(1), Num(1)>>) /\ params.key = Nil
    /\ WantsDocs /\ ByWholeKey /\ ret.reduceCalled
    /\ Len(ret.reduceIn) = 2 /\ Len(ret.Rows) = 2 /\ ret.TotalRows = 2

====
